---- MODULE Spec2Model ----
(***************************************************************************)
(* Model of the incremental LinkedIn post scraper (src/scrap.py).          *)
(*                                                                         *)
(* Text is modelled as a sequence of atoms.  An atom is one character,     *)
(* except URN, which stands for the whole literal "urn:li:activity:" (the  *)
(* literal cannot overlap itself, so treating it as one atom loses         *)
(* nothing), and NONE, which builds the value None.                        *)
(* Real numbers are scaled integers: a polarity is counted in units of     *)
(* 1/10000, a stored sentiment score in units of 1/1000.                   *)
(***************************************************************************)
EXTENDS Integers, Sequences, FiniteSets, TLC

\* ------------------------------------------------------------------ bounds
\* Scaled-down values of the three limits that main() configures.
MAX_POSTS == 2
MAX_SCROLL_ATTEMPTS == 3
MAX_NO_NEW_POSTS_IN_A_ROW == 2
\* Most post containers in one page snapshot.
MaxContainers == 2
\* Most runs of main() in one behaviour.
MaxRuns == 2
\* Most digits before and after the point of a reactions token parsed alone.
MaxIntegerDigits == 2
MaxFractionDigits == 2
\* Most atoms of a text handed to the normalizer alone.
MaxTextLen == 5
\* Most atoms of a name or title text handed to the halving alone.
MaxNameLen == 7
\* Most data rows of a store handed to a reporting function.
MaxRows == 2

\* ------------------------------------------------------------------- text
URN == "urn:li:activity:"
None == <<"NONE">>

IsWhitespace(c) == c \in {" ", "\n", "\r", "\f"}

RECURSIVE LStrip(_)
LStrip(s) == IF s # <<>> /\ IsWhitespace(Head(s)) THEN LStrip(Tail(s)) ELSE s

RECURSIVE RStrip(_)
RStrip(s) ==
    IF s # <<>> /\ IsWhitespace(s[Len(s)]) THEN RStrip(SubSeq(s, 1, Len(s) - 1)) ELSE s

\* str.strip()
Strip(s) == RStrip(LStrip(s))

\* c in s
Contains(s, c) == \E i \in 1..Len(s) : s[i] = c

\* s.replace(c, "")
Remove(s, c) == SelectSeq(s, LAMBDA x : x # c)

\* s.split(c)[-1]: what follows the last c (all of s when c does not occur)
RECURSIVE AfterLast(_, _)
AfterLast(s, c) ==
    IF s = <<>> THEN <<>>
    ELSE IF s[Len(s)] = c THEN <<>>
    ELSE Append(AfterLast(SubSeq(s, 1, Len(s) - 1), c), s[Len(s)])

\* s.split(c)[0]: what precedes the first c (all of s when c does not occur)
RECURSIVE BeforeFirst(_, _)
BeforeFirst(s, c) ==
    IF s = <<>> THEN <<>>
    ELSE IF Head(s) = c THEN <<>>
    ELSE <<Head(s)>> \o BeforeFirst(Tail(s), c)

\* The characters of s before its first whitespace
RECURSIVE BeforeWhitespace(_)
BeforeWhitespace(s) ==
    IF s = <<>> \/ IsWhitespace(Head(s)) THEN <<>>
    ELSE <<Head(s)>> \o BeforeWhitespace(Tail(s))

\* Python truthiness of an optional string
Truthy(s) == s # None /\ s # <<>>

\* x or ""
OrEmpty(s) == IF Truthy(s) THEN s ELSE <<>>

UpperChar(c) ==
    CASE c = "k" -> "K"
      [] c = "m" -> "M"
      [] c = "l" -> "L"
      [] c = "i" -> "I"
      [] c = "e" -> "E"
      [] OTHER -> c

\* str.upper()
Upper(s) == [i \in 1..Len(s) |-> UpperChar(s[i])]

\* --------------------------------------------------------------- numbers
IsDigit(c) == c \in {"0", "1", "2", "3", "4", "5", "6", "7", "8", "9"}

DigitVal(c) ==
    CASE c = "0" -> 0 [] c = "1" -> 1 [] c = "2" -> 2 [] c = "3" -> 3 [] c = "4" -> 4
      [] c = "5" -> 5 [] c = "6" -> 6 [] c = "7" -> 7 [] c = "8" -> 8 [] c = "9" -> 9

AllDigits(s) == \A i \in 1..Len(s) : IsDigit(s[i])

HasSign(s) == s # <<>> /\ Head(s) \in {"-", "+"}
Unsigned(s) == IF HasSign(s) THEN Tail(s) ELSE s
SignOf(s) == IF s # <<>> /\ Head(s) = "-" THEN -1 ELSE 1

RECURSIVE DigitsValue(_)
DigitsValue(s) ==
    IF s = <<>> THEN 0 ELSE 10 * DigitsValue(SubSeq(s, 1, Len(s) - 1)) + DigitVal(s[Len(s)])

\* The literals int() accepts: an optional sign and one or more digits, with
\* surrounding whitespace ignored.  Anything else is a ValueError.
IsIntLiteral(s) == LET u == Unsigned(Strip(s)) IN u # <<>> /\ AllDigits(u)
IntValue(s) == SignOf(Strip(s)) * DigitsValue(Unsigned(Strip(s)))

\* The literals float() accepts among texts made of signs, digits, points and
\* letters other than an exponent, "inf" or "nan": an optional sign, digits with
\* at most one point, and at least one digit.  Anything else is a ValueError.
IsFloatLiteral(s) ==
    LET u == Unsigned(Strip(s))
        d == Remove(u, ".")
    IN  /\ d # <<>>
        /\ AllDigits(d)
        /\ Len(u) - Len(d) <= 1

\* The decimal a float literal denotes: Numerator / 10^FractionDigits.
FloatNumerator(s) == DigitsValue(Remove(Unsigned(Strip(s)), "."))
FractionDigits(s) ==
    LET u == Unsigned(Strip(s)) IN IF Contains(u, ".") THEN Len(AfterLast(u, ".")) ELSE 0

\* ---- IEEE-754 binary64, the arithmetic of Python's float.
\* A magnitude too wide for one integer is a little-endian sequence of limbs
\* in base 2^15, without leading zero limbs; <<>> is zero.
BASE == 32768
LIMB_BITS == 15
MANT_BITS == 53
\* float(): the decimal is first scaled by 2^(LIMB_BITS * SCALE_LIMBS).
SCALE_LIMBS == 5

RECURSIVE BTrim(_)
BTrim(a) == IF a # <<>> /\ a[Len(a)] = 0 THEN BTrim(SubSeq(a, 1, Len(a) - 1)) ELSE a

RECURSIVE BFromInt(_)
BFromInt(n) == IF n = 0 THEN <<>> ELSE <<n % BASE>> \o BFromInt(n \div BASE)

RECURSIVE BToInt(_)
BToInt(a) == IF a = <<>> THEN 0 ELSE Head(a) + BASE * BToInt(Tail(a))

RECURSIVE BMulCarry(_, _, _)
BMulCarry(a, c, carry) ==
    IF a = <<>> THEN BFromInt(carry)
    ELSE LET t == Head(a) * c + carry
         IN  <<t % BASE>> \o BMulCarry(Tail(a), c, t \div BASE)

\* a * c, for 0 < c < BASE
BMulSmall(a, c) == BMulCarry(a, c, 0)

\* a + 1
RECURSIVE BIncr(_)
BIncr(a) ==
    IF a = <<>> THEN <<1>>
    ELSE IF Head(a) + 1 < BASE THEN <<Head(a) + 1>> \o Tail(a)
    ELSE <<0>> \o BIncr(Tail(a))

\* a divided by c, for 0 < c < BASE: quotient (untrimmed) and remainder
RECURSIVE BDivRaw(_, _)
BDivRaw(a, c) ==
    IF a = <<>> THEN [q |-> <<>>, r |-> 0]
    ELSE LET hi == BDivRaw(Tail(a), c)
             cur == hi.r * BASE + Head(a)
         IN  [q |-> <<cur \div c>> \o hi.q, r |-> cur % c]

BDivSmall(a, c) == LET d == BDivRaw(a, c) IN [q |-> BTrim(d.q), r |-> d.r]

RECURSIVE Pow2(_)
Pow2(k) == IF k = 0 THEN 1 ELSE 2 * Pow2(k - 1)

RECURSIVE IntBitLen(_)
IntBitLen(n) == IF n = 0 THEN 0 ELSE 1 + IntBitLen(n \div 2)

BitLen(a) == IF a = <<>> THEN 0 ELSE LIMB_BITS * (Len(a) - 1) + IntBitLen(a[Len(a)])

\* floor(a / 2^t) and whether any one bit was shifted out
ShiftRight(a, t) ==
    LET limbs == t \div LIMB_BITS
        bits == t % LIMB_BITS
    IN  IF limbs >= Len(a)
        THEN [q |-> <<>>, sticky |-> a # <<>>]
        ELSE LET low == SubSeq(a, 1, limbs)
                 d == BDivSmall(SubSeq(a, limbs + 1, Len(a)), Pow2(bits))
             IN  [q |-> d.q,
                  sticky |-> d.r # 0 \/ \E i \in 1..Len(low) : low[i] # 0]

\* a * 2^e rounded to a 53-bit significand, ties to even; inexact says that
\* a is itself a truncation of the exact value.  Result: [m, e], value m * 2^e.
RoundToDouble(a, e, inexact) ==
    LET s == BitLen(a) - MANT_BITS
    IN  IF s <= 0 THEN [m |-> a, e |-> e]
        ELSE LET q1 == ShiftRight(a, s - 1)
                 half == Head(q1.q) % 2 = 1
                 m0 == ShiftRight(q1.q, 1).q
                 up == half /\ (q1.sticky \/ inexact \/ Head(m0) % 2 = 1)
                 m1 == IF up THEN BIncr(m0) ELSE m0
             IN  IF BitLen(m1) > MANT_BITS
                 THEN [m |-> ShiftRight(m1, 1).q, e |-> e + s + 1]
                 ELSE [m |-> m1, e |-> e + s]

\* floor(a / 10^d), and whether the division was inexact
RECURSIVE DivPow10(_, _)
DivPow10(a, d) ==
    IF d = 0 THEN [q |-> a, inexact |-> FALSE]
    ELSE LET one == BDivSmall(a, 10)
             rest == DivPow10(one.q, d - 1)
         IN  [q |-> rest.q, inexact |-> rest.inexact \/ one.r # 0]

\* The double nearest to n / 10^d (n >= 0), which is what float() returns.
DoubleOfDecimal(n, d) ==
    IF n = 0 THEN [m |-> <<>>, e |-> 0]
    ELSE LET scaled == [i \in 1..SCALE_LIMBS |-> 0] \o BFromInt(n)
             quo == DivPow10(scaled, d)
         IN  RoundToDouble(quo.q, 0 - LIMB_BITS * SCALE_LIMBS, quo.inexact)

\* x * 1000.0 as the double product
DoubleTimes1000(x) == RoundToDouble(BMulSmall(x.m, 1000), x.e, FALSE)

\* x * 1000000.0 as the double product (1000 * 1000 exactly, rounded once)
DoubleTimes1000000(x) == RoundToDouble(BMulSmall(BMulSmall(x.m, 1000), 1000), x.e, FALSE)

\* int() of a non-negative double: truncation
DoubleToInt(x) ==
    IF x.m = <<>> THEN 0
    ELSE IF x.e >= 0 THEN BToInt(x.m) * Pow2(x.e)
    ELSE BToInt(ShiftRight(x.m, 0 - x.e).q)

\* float(s), for a float literal s, as sign and magnitude
FloatOf(s) == [sign |-> SignOf(Strip(s)), mag |-> DoubleOfDecimal(FloatNumerator(s), FractionDigits(s))]

\* ------------------------------------------------------ reaction counts
\* What a call returns: a value, or the exception it raises.
Returned(v) == [raised |-> "", value |-> v]
Raised(exc) == [raised |-> exc, value |-> 0]

\* convert_abbreviated_to_number(s)
convert_abbreviated_to_number(s0) ==
    LET s == Strip(Upper(s0))
    IN  IF Contains(s, "K")
        THEN IF IsFloatLiteral(Remove(s, "K"))
             THEN LET x == FloatOf(Remove(s, "K"))
                  IN  Returned(x.sign * DoubleToInt(DoubleTimes1000(x.mag)))
             ELSE Raised("ValueError")
        ELSE IF Contains(s, "M")
        THEN IF IsFloatLiteral(Remove(s, "M"))
             THEN LET x == FloatOf(Remove(s, "M"))
                  IN  Returned(x.sign * DoubleToInt(DoubleTimes1000000(x.mag)))
             ELSE Raised("ValueError")
        ELSE IF IsIntLiteral(s) THEN Returned(IntValue(s))
        ELSE Returned(0)

\* ------------------------------------------------------------- sentiment
\* What the polarity engine (TextBlob) does with a text: it fails, or it
\* returns a polarity, here in units of 1/10000.
EngineFails == [failed |-> TRUE, polarity |-> 0]
EnginePolarity(p) == [failed |-> FALSE, polarity |-> p]

\* The polarities the engine is let return: zero, the upper threshold itself
\* (1000 is 0.1), a value within 0.0005 of the lower one and a clear positive.
\* None of them ends in 5, so that round() meets no tie.
Polarities == {-1004, 0, 1000, 1500}

EngineOutcomes == {EngineFails} \cup {EnginePolarity(p) : p \in Polarities}

\* round(polarity, 3): from units of 1/10000 to units of 1/1000, half to even
Round3(p) ==
    LET q == p \div 10
        r == p % 10
    IN  IF r > 5 \/ (r = 5 /\ q % 2 = 1) THEN q + 1 ELSE q

\* An analyze_sentiment whose handler lets the engine's failure through: the
\* caller gets no (label, score) pair.
analyze_sentiment_reraising(available, text, outcome) ==
    IF ~available \/ ~Truthy(text) THEN [label |-> "neutral", score |-> 0]
    ELSE IF outcome.failed THEN [label |-> "raised", score |-> 0]
    ELSE [label |-> IF outcome.polarity > 1000 THEN "positive"
                    ELSE IF outcome.polarity < -1000 THEN "negative"
                    ELSE "neutral",
          score |-> Round3(outcome.polarity)]

\* analyze_sentiment(text) under SENTIMENT_AVAILABLE = available, when the
\* engine, if it is asked, does `outcome`
analyze_sentiment(available, text, outcome) ==
    IF ~available \/ ~Truthy(text) THEN [label |-> "neutral", score |-> 0]
    ELSE IF outcome.failed THEN [label |-> "neutral", score |-> 0]
    ELSE [label |-> IF outcome.polarity > 1000 THEN "positive"
                    ELSE IF outcome.polarity < -1000 THEN "negative"
                    ELSE "neutral",
          score |-> Round3(outcome.polarity)]

\* analyze_sentiment(text) of src/sentiment.py, the reporting tool: the same
\* statements as the scraper's.
sentiment_analyze_sentiment(available, text, outcome) ==
    IF ~available \/ ~Truthy(text) THEN [label |-> "neutral", score |-> 0]
    ELSE IF outcome.failed THEN [label |-> "neutral", score |-> 0]
    ELSE [label |-> IF outcome.polarity > 1000 THEN "positive"
                    ELSE IF outcome.polarity < -1000 THEN "negative"
                    ELSE "neutral",
          score |-> Round3(outcome.polarity)]

\* ------------------------------------------------------- text normalizer
\* re.sub(r'\s+', ' ', s)
RECURSIVE CollapseSpaces(_)
CollapseSpaces(s) ==
    IF s = <<>> THEN <<>>
    ELSE IF IsWhitespace(Head(s))
    THEN <<" ">> \o CollapseSpaces(LStrip(s))
    ELSE <<Head(s)>> \o CollapseSpaces(Tail(s))

\* The word "hashtag", in any casing, as one atom (it cannot overlap itself).
HASHTAG == "hashtag"

\* Line 147: a line break becomes a blank (the quotation marks that lines
\* 150-152 replace by straight ones are not among the atoms)
ReplaceChar(c) == IF c \in {"\n", "\r"} THEN " " ELSE c

\* Lines 155-182 and 193: the form feed stands for the characters these lines
\* delete (emoji, pictographs, control characters, bullets)
IsDeleted(c) == c = "\f"

Min(a, b) == IF a < b THEN a ELSE b

\* The number of m at the head of s
RECURSIVE RunLen(_, _)
RunLen(s, m) == IF s # <<>> /\ Head(s) = m THEN 1 + RunLen(Tail(s), m) ELSE 0

\* Lines 186-187: re.sub(m{1,3}([^m]*)m{1,3}, group 1) for the marker m.  The
\* scan goes from left to right; at a run of r markers the greedy match takes
\* three of them when four or more stand there (and then closes on what is
\* left of the run), else the whole run and the text up to the next marker;
\* without a later marker it gives one marker back to close on, and a single
\* marker with none after it stays.
RECURSIVE StripEmphasis(_, _)
StripEmphasis(s, m) ==
    IF s = <<>> THEN <<>>
    ELSE IF Head(s) # m THEN <<Head(s)>> \o StripEmphasis(Tail(s), m)
    ELSE LET r == RunLen(s, m)
             after == SubSeq(s, r + 1, Len(s))
             inner == BeforeFirst(after, m)
             rest == SubSeq(after, Len(inner) + 1, Len(after))
         IN  IF r >= 4
             THEN StripEmphasis(SubSeq(s, 4 + Min(3, r - 3), Len(s)), m)
             ELSE IF rest # <<>>
             THEN inner \o StripEmphasis(SubSeq(rest, Min(3, RunLen(rest, m)) + 1,
                                                Len(rest)), m)
             ELSE IF r >= 2 THEN StripEmphasis(after, m)
             ELSE <<m>> \o StripEmphasis(Tail(s), m)

\* Line 190 deletes the tildes (a backtick has become a quote by then).
\* Line 196: re.sub(r'hashtag\s*#', '#', s, flags=re.IGNORECASE)
RECURSIVE ReplaceHashtag(_)
ReplaceHashtag(s) ==
    IF s = <<>> THEN <<>>
    ELSE IF Head(s) = HASHTAG /\ LStrip(Tail(s)) # <<>> /\ Head(LStrip(Tail(s))) = "#"
    THEN <<"#">> \o ReplaceHashtag(Tail(LStrip(Tail(s))))
    ELSE <<Head(s)>> \o ReplaceHashtag(Tail(s))

\* clean_post_content(content): the steps of the pipeline in their order
clean_post_content(content) ==
    IF ~Truthy(content) THEN <<>>
    ELSE LET replaced == [i \in 1..Len(content) |-> ReplaceChar(content[i])]
             printable == SelectSeq(replaced, LAMBDA c : ~IsDeleted(c))
             plain == StripEmphasis(StripEmphasis(printable, "*"), "_")
             residue == Remove(plain, "~")
         IN  Strip(CollapseSpaces(ReplaceHashtag(residue)))

\* ---------------------------------------------------------------- reports
\* A store as csv.DictReader shows it: whether the file exists, the columns
\* of its header, and its data rows.  A row has a cell for each column below
\* (the cell of a column that the header lacks is never read).  A numeric cell
\* is <<>> when empty and <<n>> when it holds the text of the number n (scores
\* in units of 1/1000); Sentiment is a string; Date_Collected and Post_Content
\* are texts.  Post_ID and Post_Author_Name are in every header.
Labels == {"positive", "negative", "neutral"}

\* A writer that leaves the cell of a zero empty.
NumberTextBlankZero(n) == IF n = 0 THEN <<>> ELSE <<n>>

\* str(n), and float(cell) or int(cell), which raise ValueError on ''
NumberText(n) == <<n>>
IsNumberText(cell) == cell # <<>>
NumberOf(cell) == cell[1]

\* The sum of the numbers f[1], ..., f[n]
RECURSIVE Sum(_)
Sum(f) == IF f = <<>> THEN 0 ELSE Head(f) + Sum(Tail(f))

\* Counter(sentiments)[label]
Count(sentiments, label) == Cardinality({i \in 1..Len(sentiments) : sentiments[i] = label})

\* The figures of a report that depend on the rows
Statistics(sentiments, sentiment_scores, reactions) ==
    [total_posts |-> Len(sentiments),
     positive |-> Count(sentiments, "positive"),
     negative |-> Count(sentiments, "negative"),
     neutral |-> Count(sentiments, "neutral"),
     score_sum |-> Sum(sentiment_scores),
     total_reactions |-> Sum(reactions)]

\* How a reporting function ends: the report it wrote (<<>> for none), the
\* value it returned, the message it printed, and the exception that left it
Ended(report, value, said) ==
    [report |-> report, value |-> value, said |-> said, raised |-> ""]
Escaped(exc) == [report |-> <<>>, value |-> "", said |-> "", raised |-> exc]

\* row.get(column, default) for a Sentiment cell
SentimentOf(file, row) ==
    IF "Sentiment" \in file.fieldnames THEN row.Sentiment ELSE "neutral"

\* Lines 221-222 of src/scrap.py: float() and int() of the cells, outside any
\* try of their own
RowConverts(file, row) ==
    /\ "Sentiment_Score" \in file.fieldnames => IsNumberText(row.Sentiment_Score)
    /\ "Post_Reactions" \in file.fieldnames => IsNumberText(row.Post_Reactions)

\* A generate_sentiment_report that does not return on an empty store
generate_sentiment_report_unguarded(file, read_fails, write_fails) ==
    IF ~file.exists THEN Ended(<<>>, "None", "not found")
    ELSE IF read_fails \/ \E i \in 1..Len(file.rows) : ~RowConverts(file, file.rows[i])
    THEN Ended(<<>>, "None", "Error reading")
    ELSE IF file.rows = <<>> THEN Escaped("ZeroDivisionError")
    ELSE IF write_fails THEN Escaped("OSError")
    ELSE Ended(<<"report">>, "None", "generated")

\* generate_sentiment_report(csv_file, report_file) of src/scrap.py, when the
\* environment does or does not fail the read of the store and the write of
\* the report
generate_sentiment_report(file, read_fails, write_fails) ==
    LET n == Len(file.rows)
        sentiments == [i \in 1..n |-> SentimentOf(file, file.rows[i])]
        sentiment_scores ==
            [i \in 1..n |-> IF "Sentiment_Score" \in file.fieldnames
                            THEN NumberOf(file.rows[i].Sentiment_Score) ELSE 0]
        reactions ==
            [i \in 1..n |-> IF "Post_Reactions" \in file.fieldnames
                            THEN NumberOf(file.rows[i].Post_Reactions) ELSE 0]
    IN  IF ~file.exists THEN Ended(<<>>, "None", "not found")
        ELSE IF read_fails \/ \E i \in 1..n : ~RowConverts(file, file.rows[i])
        THEN Ended(<<>>, "None", "Error reading")
        ELSE IF file.rows = <<>> THEN Ended(<<>>, "None", "No data found")
        ELSE IF write_fails THEN Escaped("OSError")
        ELSE Ended(<<Statistics(sentiments, sentiment_scores, reactions)>>, "None",
                   "generated")

\* validate_csv_structure(csv_file) of src/sentiment.py, for a file that can
\* be read
required_columns == {"Post_ID", "Post_Author_Name", "Post_Content", "Post_Reactions"}
validate_csv_structure(file) == required_columns \subseteq file.fieldnames

\* Lines 230-241 of src/sentiment.py: a dated row whose Sentiment is none of
\* the three keys of its day's record
DayLacksKey(file, row) ==
    Truthy(row.Date_Collected) /\ SentimentOf(file, row) \notin Labels

\* generate_sentiment_report(csv_file, report_file, detailed) of
\* src/sentiment.py; a cell that does not convert counts as 0
sentiment_generate_sentiment_report(file, read_fails, write_fails) ==
    LET n == Len(file.rows)
        sentiments == [i \in 1..n |-> SentimentOf(file, file.rows[i])]
        sentiment_scores ==
            [i \in 1..n |-> IF "Sentiment_Score" \in file.fieldnames
                               /\ IsNumberText(file.rows[i].Sentiment_Score)
                            THEN NumberOf(file.rows[i].Sentiment_Score) ELSE 0]
        reactions ==
            [i \in 1..n |-> IF "Post_Reactions" \in file.fieldnames
                               /\ IsNumberText(file.rows[i].Post_Reactions)
                            THEN NumberOf(file.rows[i].Post_Reactions) ELSE 0]
    IN  IF ~file.exists THEN Ended(<<>>, "False", "not found")
        ELSE IF read_fails THEN Ended(<<>>, "False", "Error reading")
        ELSE IF ~validate_csv_structure(file)
        THEN Ended(<<>>, "False", "validation failed")
        ELSE IF file.rows = <<>> THEN Ended(<<>>, "False", "No data found")
        ELSE IF \E i \in 1..n : DayLacksKey(file, file.rows[i]) THEN Escaped("KeyError")
        ELSE IF write_fails THEN Ended(<<>>, "False", "Error generating report")
        ELSE Ended(<<Statistics(sentiments, sentiment_scores, reactions)>>, "True",
                   "generated")

\* Line 76 of src/sentiment.py: the row lacks a sentiment or a score
\* (row.get gives None for a column the header lacks, '' for an empty cell)
NeedsSentiment(file, row) ==
    \/ "Sentiment" \notin file.fieldnames \/ row.Sentiment = ""
    \/ "Sentiment_Score" \notin file.fieldnames \/ ~IsNumberText(row.Sentiment_Score)

\* Lines 75-82: the row as it is appended to rows, when the engine, if it is
\* asked, does `outcome`; the score is shown as the writer will write it
Backfilled(file, row, available, outcome) ==
    IF NeedsSentiment(file, row)
    THEN LET sent == sentiment_analyze_sentiment(available, row.Post_Content, outcome)
         IN  [row EXCEPT !.Sentiment = sent.label,
                         !.Sentiment_Score = NumberText(sent.score)]
    ELSE row

\* How update_csv_with_sentiment ends: the value it returned, updated_count,
\* the exception that left it, and the file it leaves
Updated(value, updated_count, exc, file) ==
    [value |-> value, updated_count |-> updated_count, raised |-> exc, file |-> file]

\* update_csv_with_sentiment(csv_file, backup) of src/sentiment.py, when the
\* engine does outcomes[i] for row i and the environment lets the backup, the
\* read and the opening for writing succeed or not, and lets `written` rows
\* reach the file
update_csv_with_sentiment(file, backup, available, outcomes, backup_fails, read_fails, open_fails, written) ==
    LET n == Len(file.rows)
        fieldnames == file.fieldnames \cup {"Sentiment", "Sentiment_Score"}
        rows == [i \in 1..n |-> Backfilled(file, file.rows[i], available, outcomes[i])]
        updated_count == Cardinality({i \in 1..n : NeedsSentiment(file, file.rows[i])})
    IN  IF ~file.exists THEN Updated("False", 0, "", file)
        ELSE IF backup /\ backup_fails THEN Updated("", 0, "OSError", file)
        ELSE IF read_fails \/ file.fieldnames = {} THEN Updated("False", 0, "", file)
        ELSE IF open_fails THEN Updated("False", updated_count, "", file)
        ELSE IF written < n
        THEN Updated("False", updated_count, "",
                     [exists |-> TRUE, fieldnames |-> fieldnames,
                      rows |-> SubSeq(rows, 1, written)])
        ELSE Updated("True", updated_count, "",
                     [exists |-> TRUE, fieldnames |-> fieldnames, rows |-> rows])

\* ------------------------------------------------------- field extractor
\* Lines 438-447: the post id of a container, or None
ResolvePostId(pw) ==
    LET post_url == Strip(pw.href)
        from_link == IF Truthy(pw.href) /\ Contains(post_url, URN)
                     THEN Remove(AfterLast(post_url, URN), "/")
                     ELSE None
    IN  IF Truthy(from_link) THEN from_link
        ELSE IF Contains(pw.data_urn, URN) THEN AfterLast(pw.data_urn, URN)
        ELSE from_link

\* str.split(): the maximal runs of characters that are not whitespace
RECURSIVE Split(_)
Split(s) ==
    LET t == LStrip(s)
        word == BeforeWhitespace(t)
    IN  IF t = <<>> THEN <<>>
        ELSE <<word>> \o Split(SubSeq(t, Len(word) + 1, Len(t)))

\* ' '.join(words)
RECURSIVE Join(_)
Join(words) ==
    IF words = <<>> THEN <<>>
    ELSE IF Len(words) = 1 THEN words[1]
    ELSE words[1] \o <<" ">> \o Join(Tail(words))

\* A halving that rounds the middle up.
FirstHalfRoundedUp(raw) ==
    LET words == Split(raw)
        mid == (Len(words) + 1) \div 2
    IN  IF Len(words) >= 2 THEN Join(SubSeq(words, 1, mid)) ELSE raw

\* Lines 473-479, and again 491-497: the first half of a text that the page
\* renders twice
FirstHalf(raw) ==
    LET words == Split(raw)
        mid == Len(words) \div 2
    IN  IF Len(words) >= 2 THEN Join(SubSeq(words, 1, mid)) ELSE raw

\* Lines 465-479: the author name; actor is the text of the name element,
\* None without the actor structure
AuthorName(actor) == IF ~Truthy(actor) THEN None ELSE FirstHalf(actor)

\* Lines 487-499: the author's job title, from the text of its element
AuthorJobTitle(raw_jobtitle) ==
    IF ~Truthy(raw_jobtitle) THEN None ELSE clean_post_content(FirstHalf(raw_jobtitle))

\* Lines 501-505
PostContent(pw) == IF pw.content = None THEN None ELSE clean_post_content(pw.content)

\* Lines 510-518: the reaction count, or the exception the parsing raises
PostReactions(pw) ==
    IF pw.label = None THEN Returned(0)
    ELSE convert_abbreviated_to_number(BeforeFirst(pw.label, " "))

\* Lines 523-533: the row of an accepted container
PostData(post_id, pw, available, outcome) ==
    LET post_content == PostContent(pw)
        sent == analyze_sentiment(available, post_content, outcome)
    IN  [Post_ID |-> OrEmpty(post_id),
         Post_Author_Name |-> OrEmpty(AuthorName(pw.actor)),
         Post_Content |-> OrEmpty(post_content),
         Post_Reactions |-> PostReactions(pw).value,
         Sentiment |-> sent.label,
         Sentiment_Score |-> sent.score]

\* ----------------------------------------------------------------- inputs
\* A post container: the href of its link to the detail page (None without
\* such a link), its data-urn attribute ("" without one), the words of the
\* author's name text (None without the actor structure), the text of its
\* content element (None without one) and the aria-label of its reactions
\* button (None without one).
Container(href, data_urn, actor, content, label) ==
    [href |-> href, data_urn |-> data_urn, actor |-> actor, content |-> content,
     label |-> label]

HrefValues == {None, <<"h">>, <<"h", URN, "1", "/">>, <<"h", URN, "/">>}
UrnValues == {<<>>, <<URN, "1">>, <<URN, "1", " ">>, <<URN, "2">>}
ActorValues == {None, <<"C">>, <<"J", " ", "D", "J", " ", "D">>}
ContentValues == {None, <<>>, <<"~">>, <<"a", "\n", "a">>}
LabelValues ==
    {None, <<>>, <<"4", "2", " ", "r">>, <<"-", "1", "K">>, <<"L", "i", "k", "e", " ", "r">>}

\* The containers a live page shows: every identification with nothing else
\* in the container but an empty content element, and one post with each
\* author, content and reactions structure in turn.
Containers ==
    {Container(h, u, None, <<>>, None) : h \in HrefValues, u \in UrnValues}
    \cup {Container(<<"h", URN, "1", "/">>, <<>>, a, <<>>, None) : a \in ActorValues}
    \cup {Container(<<"h", URN, "1", "/">>, <<>>, None, c, None) : c \in ContentValues}
    \cup {Container(<<"h", URN, "1", "/">>, <<>>, None, <<>>, l) : l \in LabelValues}

\* The containers of a scripted page, whose snapshots are fixed in advance.
ScriptContainers ==
    {Container(<<"h", URN, "1", "/">>, <<>>, None, <<>>, None),
     Container(None, <<URN, "1", " ">>, None, <<>>, None),
     Container(None, <<URN, "2">>, None, <<"a">>, <<"4", "2", " ", "r">>),
     Container(None, <<URN, "3">>, None, <<>>, None)}

RECURSIVE SeqsUpTo(_, _)
SeqsUpTo(S, n) ==
    IF n = 0 THEN {<<>>}
    ELSE LET shorter == SeqsUpTo(S, n - 1)
         IN  shorter \cup {Append(q, x) : q \in shorter, x \in S}

ScriptSnapshots == SeqsUpTo(ScriptContainers, MaxContainers)

\* ------------------------------------------------------------------ state
VARIABLES
    store_exists,            \* the CSV file exists
    store,                   \* its data rows, in file order
    sentiment_available,     \* SENTIMENT_AVAILABLE
    existing_post_ids,       \* the dedup ledger
    new_posts_added, total_posts_processed, skipped_duplicates,
    scroll_attempts, no_new_posts_count, new_posts_in_this_pass,
    pending,                 \* containers of post_wrappers not yet examined
    accepted,                \* the container being recorded: id, content, row
    pc,                      \* where main() is
    error,                   \* what ended the run, when pc = "aborted"
    runs,                    \* runs of main() so far
    page,                    \* the scripted snapshots, <<>> for a live page
    cycles,                  \* history: capture cycles of this run
    last_new_cycle,          \* history: the last cycle that accepted a record
    last_step,               \* history: what the loop did with the last container
    printed,                 \* history: post ids whose success line was printed
    rows_at_start,           \* history: rows of the store when the run began
    ledger_at_start,         \* history: the ledger the bootstrap returned
    load_failed,             \* history: the ledger bootstrap hit a read error
    previous_run,            \* history: how the run before this one ended
    token,                   \* the reactions token handed to the parser alone
    result,                  \* what the parser did with it
    argument,                \* the text handed to a text function called alone
    returned,                \* what that function, or a tool, returned
    csv_file,                \* the store as the reporting functions read it
    report_file              \* the report file: <<>> while it is not written

vars ==
    <<store_exists, store, sentiment_available, existing_post_ids, new_posts_added,
      total_posts_processed, skipped_duplicates, scroll_attempts, no_new_posts_count,
      new_posts_in_this_pass, pending, accepted, pc, error, runs, page, cycles,
      last_new_cycle, last_step, printed, rows_at_start, ledger_at_start, load_failed, previous_run,
      token, result, argument, returned, csv_file, report_file>>

counters ==
    <<new_posts_added, total_posts_processed, skipped_duplicates, scroll_attempts,
      no_new_posts_count, new_posts_in_this_pass>>

installation ==
    <<sentiment_available, page, runs, previous_run, token, result, argument, returned,
      csv_file, report_file>>

history == <<cycles, last_new_cycle, printed, rows_at_start, ledger_at_start, load_failed>>

Nothing == [post_id |-> <<>>, post_content |-> <<>>, post_data |-> <<>>]

\* Before main() is called
NotStarted ==
    /\ store_exists = FALSE
    /\ store = <<>>
    /\ sentiment_available \in BOOLEAN
    /\ existing_post_ids = {}
    /\ new_posts_added = 0
    /\ total_posts_processed = 0
    /\ skipped_duplicates = 0
    /\ scroll_attempts = 0
    /\ no_new_posts_count = 0
    /\ new_posts_in_this_pass = 0
    /\ pending = 0
    /\ accepted = Nothing
    /\ error = ""
    /\ runs = 1
    /\ cycles = 0
    /\ last_new_cycle = 0
    /\ last_step = ""
    /\ printed = {}
    /\ rows_at_start = 0
    /\ ledger_at_start = {}
    /\ load_failed = FALSE
    /\ previous_run = ""

NotParsing == token = <<>> /\ result = Returned(0)

\* No store handed to the reporting functions
NoFile == [exists |-> FALSE, fieldnames |-> {}, rows |-> <<>>]

\* No text function called alone
NoCall == argument = <<>> /\ returned = <<>>

\* No reporting function called
NoReport == csv_file = NoFile /\ report_file = <<>>

Init == NotStarted /\ NotParsing /\ NoCall /\ NoReport /\ pc = "start" /\ page = <<>>

\* The row an earlier run left for a container that carries nothing but its
\* data-urn
StoredRow(data_urn) ==
    LET pw == Container(None, data_urn, None, <<>>, None)
    IN  PostData(ResolvePostId(pw), pw, FALSE, EngineFails)

\* The stores a run can find: a row, two rows with different ids, and two
\* rows whose ids differ by a trailing blank
ResumeStores ==
    {<<StoredRow(<<URN, "1">>)>>,
     <<StoredRow(<<URN, "2">>), StoredRow(<<URN, "1">>)>>,
     <<StoredRow(<<URN, "1">>), StoredRow(<<URN, "1", " ">>)>>}

\* main() is called over a store that earlier runs left
InitResume ==
    /\ store_exists = TRUE
    /\ store \in ResumeStores
    /\ sentiment_available \in BOOLEAN
    /\ existing_post_ids = {}
    /\ new_posts_added = 0
    /\ total_posts_processed = 0
    /\ skipped_duplicates = 0
    /\ scroll_attempts = 0
    /\ no_new_posts_count = 0
    /\ new_posts_in_this_pass = 0
    /\ pending = 0
    /\ accepted = Nothing
    /\ error = ""
    /\ runs = 1
    /\ cycles = 0
    /\ last_new_cycle = 0
    /\ last_step = ""
    /\ printed = {}
    /\ rows_at_start = 0
    /\ ledger_at_start = {}
    /\ load_failed = FALSE
    /\ previous_run = ""
    /\ NotParsing
    /\ NoCall
    /\ NoReport
    /\ pc = "start"
    /\ page = <<>>

InitScripted ==
    /\ NotStarted
    /\ NotParsing
    /\ NoCall
    /\ NoReport
    /\ pc = "start"
    /\ page \in [1..MAX_SCROLL_ATTEMPTS -> ScriptSnapshots]

\* The reactions tokens handed to the parser alone: an integer part, an
\* optional point and fraction, and no suffix or one of K, k, M, m.
TokenDigits == {"0", "1", "2", "5", "9"}
IntegerParts == SeqsUpTo(TokenDigits, MaxIntegerDigits) \ {<<>>}
Fractions == {<<>>} \cup {<<".">> \o f : f \in SeqsUpTo(TokenDigits, MaxFractionDigits) \ {<<>>}}
Suffixes == {<<>>, <<"K">>, <<"k">>, <<"M">>, <<"m">>}
Tokens == {i \o f \o x : i \in IntegerParts, f \in Fractions, x \in Suffixes}

InitParse ==
    /\ NotStarted
    /\ NoCall
    /\ NoReport
    /\ page = <<>>
    /\ pc = "parse"
    /\ token \in Tokens
    /\ result = Returned(0)

\* ---------------------------------------------------------------- actions
\* load_existing_post_ids over the rows the reader yields before it stops
load_existing_post_ids(rows) ==
    {Strip(rows[i].Post_ID) : i \in 1..Len(rows)} \ {<<>>}

\* Lines 381-382 and 422-427: initialize_csv_file creates the file when it is
\* missing, the ledger is read from it (the read may fail at any row, and the
\* ids of the rows before it are kept), and the counters start at 0.
Startup ==
    /\ pc = "start"
    /\ store_exists' = TRUE
    /\ \E failed \in BOOLEAN :
         \E read \in 0..Len(store) :
            /\ IF failed THEN read < Len(store) ELSE read = Len(store)
            /\ existing_post_ids' = load_existing_post_ids(SubSeq(store, 1, read))
            /\ load_failed' = failed
    /\ new_posts_added' = 0
    /\ total_posts_processed' = 0
    /\ skipped_duplicates' = 0
    /\ scroll_attempts' = 0
    /\ no_new_posts_count' = 0
    /\ new_posts_in_this_pass' = 0
    /\ rows_at_start' = Len(store)
    /\ ledger_at_start' = existing_post_ids'
    /\ pc' = "loop"
    /\ UNCHANGED <<store, pending, accepted, error, installation, cycles, last_new_cycle,
                   last_step, printed>>

\* A while test that leaves the stagnation limit out.
LoopGuardWithoutStagnation ==
    /\ new_posts_added < MAX_POSTS
    /\ scroll_attempts < MAX_SCROLL_ATTEMPTS

\* Line 432
LoopGuard ==
    /\ new_posts_added < MAX_POSTS
    /\ scroll_attempts < MAX_SCROLL_ATTEMPTS
    /\ no_new_posts_count < MAX_NO_NEW_POSTS_IN_A_ROW

\* Lines 432-435: the while test and, when it passes, the capture of a snapshot
While ==
    /\ pc = "loop"
    /\ IF LoopGuard
       THEN /\ \E n \in 0..MaxContainers :
                 /\ page # <<>> => n = Len(page[cycles + 1])
                 /\ pending' = n
            /\ new_posts_in_this_pass' = 0
            /\ cycles' = cycles + 1
            /\ pc' = "for"
       ELSE /\ pc' = "done"
            /\ UNCHANGED <<pending, new_posts_in_this_pass, cycles>>
    /\ UNCHANGED <<store_exists, store, existing_post_ids, new_posts_added,
                   total_posts_processed, skipped_duplicates, scroll_attempts,
                   no_new_posts_count, accepted, error, installation, last_new_cycle,
                   last_step, printed, rows_at_start, ledger_at_start, load_failed>>

\* The containers that can stand next in post_wrappers
Rendered ==
    IF page = <<>> THEN Containers
    ELSE {page[cycles][Len(page[cycles]) - pending + 1]}

\* What the engine can do for a container: it is asked only about a non-empty
\* content, and only when it is installed.
Consulted(pw) ==
    IF sentiment_available /\ Truthy(PostContent(pw)) THEN EngineOutcomes ELSE {EngineFails}

\* A ledger to which the id is not added.
LedgerUnchanged(ids, post_id) == ids

\* A ledger that keeps only the id it is given.
LedgerReplaced(ids, post_id) == {post_id}

\* Line 459: existing_post_ids.add(post_id)
LedgerAdd(ids, post_id) == ids \cup {post_id}

\* A skip that counts the container before it finds that it has no id.
SkipCounted ==
    /\ pending' = pending - 1
    /\ last_step' = "no_id"
    /\ total_posts_processed' = total_posts_processed + 1
    /\ UNCHANGED <<existing_post_ids, new_posts_added, skipped_duplicates,
                   new_posts_in_this_pass, accepted, pc, error, last_new_cycle>>

\* Lines 448-449: a container without an id is passed over
Skip ==
    /\ pending' = pending - 1
    /\ last_step' = "no_id"
    /\ UNCHANGED <<existing_post_ids, new_posts_added, total_posts_processed,
                   skipped_duplicates, new_posts_in_this_pass, accepted, pc, error,
                   last_new_cycle>>

\* Lines 437-533 for one container: skipped without an id, counted as a
\* duplicate, or entered in the ledger and extracted into a row
Examine(pw, outcome) ==
    LET post_id == ResolvePostId(pw)
        reactions == PostReactions(pw)
    IN  IF ~Truthy(post_id) THEN Skip
        ELSE IF post_id \in existing_post_ids
        THEN /\ total_posts_processed' = total_posts_processed + 1
             /\ skipped_duplicates' = skipped_duplicates + 1
             /\ pending' = pending - 1
             /\ last_step' = "duplicate"
             /\ UNCHANGED <<existing_post_ids, new_posts_added, new_posts_in_this_pass,
                            accepted, pc, error, last_new_cycle>>
        ELSE /\ total_posts_processed' = total_posts_processed + 1
             /\ existing_post_ids' = LedgerAdd(existing_post_ids, post_id)
             /\ new_posts_in_this_pass' = new_posts_in_this_pass + 1
             /\ last_new_cycle' = cycles
             /\ last_step' = "new"
             /\ IF reactions.raised # ""
                THEN /\ pc' = "aborted"
                     /\ error' = reactions.raised
                     /\ UNCHANGED accepted
                ELSE /\ accepted' = [post_id |-> post_id,
                                     post_content |-> PostContent(pw),
                                     post_data |-> PostData(post_id, pw,
                                                            sentiment_available, outcome)]
                     /\ pc' = "persist"
                     /\ UNCHANGED error
             /\ UNCHANGED <<new_posts_added, skipped_duplicates, pending>>

\* Line 437: the next container of the snapshot, or the end of the for loop
For ==
    /\ pc = "for"
    /\ IF pending = 0
       THEN /\ pc' = "advance"
            /\ UNCHANGED <<existing_post_ids, new_posts_added, total_posts_processed,
                           skipped_duplicates, new_posts_in_this_pass, pending, accepted,
                           error, last_new_cycle, last_step>>
       ELSE \E pw \in Rendered : \E outcome \in Consulted(pw) : Examine(pw, outcome)
    /\ UNCHANGED <<store_exists, store, scroll_attempts, no_new_posts_count, installation,
                   cycles, printed, rows_at_start, ledger_at_start, load_failed>>

\* An append whose row stays in a buffer that is never written out.
append_buffered(rows, post_data) == rows

\* append_post_to_csv(csv_file, post_data): the file is opened for appending,
\* the row is written and the file is closed
append_post_to_csv(rows, post_data) == Append(rows, post_data)

\* Lines 535-536: the row is appended, unless the file cannot be written
Persist ==
    /\ pc = "persist"
    /\ \/ /\ store' = append_post_to_csv(store, accepted.post_data)
          /\ pc' = "report"
          /\ UNCHANGED error
       \/ /\ pc' = "aborted"
          /\ error' = "OSError"
          /\ UNCHANGED store
    /\ UNCHANGED <<store_exists, existing_post_ids, counters, pending, accepted,
                   installation, history, last_step>>

\* A success report that goes on with the snapshot at the record maximum.
ReportWithoutBreak ==
    /\ pc = "report"
    /\ new_posts_added' = new_posts_added + 1
    /\ printed' = printed \cup {accepted.post_id}
    /\ IF accepted.post_content = None
       THEN /\ pc' = "aborted"
            /\ error' = "TypeError"
            /\ UNCHANGED pending
       ELSE /\ pc' = "for"
            /\ pending' = pending - 1
            /\ UNCHANGED error
    /\ accepted' = IF accepted.post_content = None THEN accepted ELSE Nothing
    /\ UNCHANGED <<store_exists, store, existing_post_ids, total_posts_processed,
                   skipped_duplicates, scroll_attempts, no_new_posts_count,
                   new_posts_in_this_pass, installation, cycles, last_new_cycle,
                   last_step, rows_at_start, ledger_at_start, load_failed>>

\* Lines 538-546: the count, the success lines (the content snippet of line
\* 541 subscripts post_content, which raises TypeError on None) and the break
Report ==
    /\ pc = "report"
    /\ new_posts_added' = new_posts_added + 1
    /\ printed' = printed \cup {accepted.post_id}
    /\ IF accepted.post_content = None
       THEN /\ pc' = "aborted"
            /\ error' = "TypeError"
            /\ UNCHANGED pending
       ELSE IF new_posts_added + 1 >= MAX_POSTS
       THEN /\ pc' = "advance"
            /\ pending' = 0
            /\ UNCHANGED error
       ELSE /\ pc' = "for"
            /\ pending' = pending - 1
            /\ UNCHANGED error
    /\ accepted' = IF accepted.post_content = None THEN accepted ELSE Nothing
    /\ UNCHANGED <<store_exists, store, existing_post_ids, total_posts_processed,
                   skipped_duplicates, scroll_attempts, no_new_posts_count,
                   new_posts_in_this_pass, installation, cycles, last_new_cycle,
                   last_step, rows_at_start, ledger_at_start, load_failed>>

\* A stagnation counter that is set to 1 (=+ 1) where it should be counted up.
StagnationSetToOne(count, in_this_pass) == IF in_this_pass = 0 THEN 1 ELSE 0

\* A stagnation counter that no cycle resets.
StagnationNeverReset(count, in_this_pass) == count + 1

\* Lines 548-551: no_new_posts_count after a cycle
Stagnation(count, in_this_pass) == IF in_this_pass = 0 THEN count + 1 ELSE 0

\* Lines 548-557: the stagnation counter and the scroll
Advance ==
    /\ pc = "advance"
    /\ no_new_posts_count' = Stagnation(no_new_posts_count, new_posts_in_this_pass)
    /\ scroll_attempts' = IF new_posts_added < MAX_POSTS THEN scroll_attempts + 1
                          ELSE scroll_attempts
    /\ pc' = "loop"
    /\ UNCHANGED <<store_exists, store, existing_post_ids, new_posts_added,
                   total_posts_processed, skipped_duplicates, new_posts_in_this_pass,
                   pending, accepted, error, installation, history, last_step>>

\* main() is run again, over the store the run before it left.
Restart ==
    /\ pc \in {"done", "aborted"}
    /\ runs < MaxRuns
    /\ runs' = runs + 1
    /\ previous_run' = pc
    /\ pc' = "start"
    /\ error' = ""
    /\ existing_post_ids' = {}
    /\ new_posts_added' = 0
    /\ total_posts_processed' = 0
    /\ skipped_duplicates' = 0
    /\ scroll_attempts' = 0
    /\ no_new_posts_count' = 0
    /\ new_posts_in_this_pass' = 0
    /\ pending' = 0
    /\ accepted' = Nothing
    /\ cycles' = 0
    /\ last_new_cycle' = 0
    /\ last_step' = ""
    /\ printed' = {}
    /\ UNCHANGED <<store_exists, store, sentiment_available, page, rows_at_start, ledger_at_start,
                   load_failed, token, result, argument, returned, csv_file,
                   report_file>>

\* convert_abbreviated_to_number(token), called on its own
Convert ==
    /\ pc = "parse"
    /\ result' = convert_abbreviated_to_number(token)
    /\ pc' = "parsed"
    /\ UNCHANGED <<store_exists, store, sentiment_available, existing_post_ids, counters,
                   pending, accepted, error, runs, page, history, last_step, previous_run,
                   token, argument, returned, csv_file, report_file>>

\* What a function called alone leaves as it is: the state of the scraper's run
scraper ==
    <<store_exists, store, sentiment_available, existing_post_ids, counters, pending,
      accepted, error, runs, page, history, last_step, previous_run, token, result>>

\* The texts and engine outcomes handed to analyze_sentiment alone
ClassifierTexts == {None, <<>>, <<" ">>, <<"a">>, <<"a", " ", "a">>, <<"~">>}

InitClassify ==
    /\ NotStarted
    /\ NotParsing
    /\ NoReport
    /\ page = <<>>
    /\ pc = "classify"
    /\ argument \in [text : ClassifierTexts, outcome : EngineOutcomes]
    /\ returned = <<>>

\* analyze_sentiment(text) of the scraper, called alone
Classify ==
    /\ pc = "classify"
    /\ returned' = analyze_sentiment(sentiment_available, argument.text, argument.outcome)
    /\ pc' = "classified"
    /\ UNCHANGED <<scraper, argument, csv_file, report_file>>

\* analyze_sentiment(text) of the reporting tool, called alone
ClassifyInTool ==
    /\ pc = "classify"
    /\ returned' = sentiment_analyze_sentiment(sentiment_available, argument.text,
                                               argument.outcome)
    /\ pc' = "classified_in_tool"
    /\ UNCHANGED <<scraper, argument, csv_file, report_file>>

\* The texts handed to clean_post_content alone
NormalizerAtoms == {"a", " ", "\n", "\f", "~", "*", "_", "#", HASHTAG}

InitNormalize ==
    /\ NotStarted
    /\ NotParsing
    /\ NoReport
    /\ page = <<>>
    /\ pc = "normalize"
    /\ argument \in SeqsUpTo(NormalizerAtoms, MaxTextLen)
    /\ returned = <<>>

\* clean_post_content(content), called alone
Normalize ==
    /\ pc = "normalize"
    /\ returned' = <<clean_post_content(argument)>>
    /\ pc' = "normalized"
    /\ UNCHANGED <<scraper, argument, csv_file, report_file>>

\* clean_post_content called on what it returned
Renormalize ==
    /\ pc = "normalized"
    /\ returned' = Append(returned, clean_post_content(returned[1]))
    /\ pc' = "renormalized"
    /\ UNCHANGED <<scraper, argument, csv_file, report_file>>

\* The texts of a name or title element: get_text(strip=True) leaves no
\* whitespace at either end, and an empty text is not halved
RawTexts == {t \in SeqsUpTo({"a", "b", " ", "~"}, MaxNameLen) : t # <<>> /\ Strip(t) = t}

InitHalve ==
    /\ NotStarted
    /\ NotParsing
    /\ NoReport
    /\ page = <<>>
    /\ pc = "halve"
    /\ argument \in RawTexts
    /\ returned = <<>>

\* Lines 471-479 on their own: author_name from raw_name
HalveName ==
    /\ pc = "halve"
    /\ returned' = AuthorName(argument)
    /\ pc' = "name"
    /\ UNCHANGED <<scraper, argument, csv_file, report_file>>

\* Lines 489-499 on their own: author_jobtitle from raw_jobtitle
HalveTitle ==
    /\ pc = "halve"
    /\ returned' = AuthorJobTitle(argument)
    /\ pc' = "title"
    /\ UNCHANGED <<scraper, argument, csv_file, report_file>>

\* The stores handed to a reporting function.  Every header has Post_ID,
\* Post_Author_Name, Post_Content and Date_Collected; a file of zero bytes has
\* no header at all.
EmptyFile == [exists |-> TRUE, fieldnames |-> {}, rows |-> <<>>]
BaseColumns == {"Post_ID", "Post_Author_Name", "Post_Content", "Date_Collected"}
OptionalColumns == {"Post_Reactions", "Sentiment", "Sentiment_Score"}
Headers == {BaseColumns \cup optional : optional \in SUBSET OptionalColumns}

\* The cell of a column: one of the given values when the header has the
\* column, and nothing to read when it has not
Cells(header, column, values, nothing) ==
    IF column \in header THEN values ELSE {nothing}

ReportRows(header) ==
    [Post_Content : {<<"a">>},
     Post_Reactions : Cells(header, "Post_Reactions", {<<>>, <<3>>}, <<>>),
     Sentiment : Cells(header, "Sentiment", {"", "neutral", "positive"}, ""),
     Sentiment_Score : Cells(header, "Sentiment_Score", {<<>>, <<500>>}, <<>>),
     Date_Collected : {<<>>, <<"d">>}]

ReportFiles ==
    {NoFile, EmptyFile}
    \cup UNION {[exists : {TRUE}, fieldnames : {header},
                 rows : SeqsUpTo(ReportRows(header), MaxRows)] : header \in Headers}

InitReport ==
    /\ NotStarted
    /\ NotParsing
    /\ page = <<>>
    /\ pc = "generate"
    /\ csv_file \in ReportFiles
    /\ argument = csv_file
    /\ returned = <<>>
    /\ report_file = <<>>

\* generate_sentiment_report of the scraper, called on a store
GenerateReport ==
    /\ pc = "generate"
    /\ \E read_fails \in BOOLEAN, write_fails \in BOOLEAN :
         LET end == generate_sentiment_report(csv_file, read_fails, write_fails)
         IN  /\ returned' = [end |-> end, read_fails |-> read_fails,
                             write_fails |-> write_fails]
             /\ report_file' = end.report
    /\ pc' = "generated"
    /\ UNCHANGED <<scraper, argument, csv_file>>

\* generate_sentiment_report of the reporting tool, called on a store
GenerateReportInTool ==
    /\ pc = "generate"
    /\ \E read_fails \in BOOLEAN, write_fails \in BOOLEAN :
         LET end == sentiment_generate_sentiment_report(csv_file, read_fails, write_fails)
         IN  /\ returned' = [end |-> end, read_fails |-> read_fails,
                             write_fails |-> write_fails]
             /\ report_file' = end.report
    /\ pc' = "generated_in_tool"
    /\ UNCHANGED <<scraper, argument, csv_file>>

\* The stores handed to the backfill: each has the Post_Reactions column, and
\* the sentiment columns or not
BackfillHeaders ==
    {BaseColumns \cup {"Post_Reactions"} \cup optional :
        optional \in SUBSET {"Sentiment", "Sentiment_Score"}}

BackfillRows(header) ==
    [Post_Content : {<<>>, <<"a">>},
     Post_Reactions : {<<3>>},
     Sentiment : Cells(header, "Sentiment", {"", "positive"}, ""),
     Sentiment_Score : Cells(header, "Sentiment_Score", {<<>>, <<500>>}, <<>>),
     Date_Collected : {<<>>}]

BackfillFiles ==
    {NoFile, EmptyFile}
    \cup UNION {[exists : {TRUE}, fieldnames : {header},
                 rows : SeqsUpTo(BackfillRows(header), MaxRows)] : header \in BackfillHeaders}

InitBackfill ==
    /\ NotStarted
    /\ NotParsing
    /\ page = <<>>
    /\ pc = "update"
    /\ csv_file \in BackfillFiles
    /\ argument = csv_file
    /\ returned = <<>>
    /\ report_file = <<>>

\* What the engine can do for a row of the backfill
ConsultedForRow(file, row) ==
    IF sentiment_available /\ NeedsSentiment(file, row) /\ Truthy(row.Post_Content)
    THEN EngineOutcomes ELSE {EngineFails}

\* update_csv_with_sentiment called on the store, a first and a second time;
\* returned keeps how each call ended
Backfill ==
    /\ pc \in {"update", "updated"}
    /\ \E backup \in BOOLEAN, backup_fails \in BOOLEAN, read_fails \in BOOLEAN,
          open_fails \in BOOLEAN, written \in 0..Len(csv_file.rows) :
         \E outcomes \in [1..Len(csv_file.rows) -> EngineOutcomes] :
            /\ \A i \in 1..Len(csv_file.rows) :
                   outcomes[i] \in ConsultedForRow(csv_file, csv_file.rows[i])
            /\ LET end == update_csv_with_sentiment(csv_file, backup, sentiment_available,
                                                    outcomes, backup_fails, read_fails,
                                                    open_fails, written)
               IN  /\ returned' = Append(returned, end)
                   /\ csv_file' = end.file
    /\ pc' = IF pc = "update" THEN "updated" ELSE "updated_again"
    /\ UNCHANGED <<scraper, argument, report_file>>

Next == Startup \/ While \/ For \/ Persist \/ Report \/ Advance

NextRerun == Startup \/ While \/ For \/ Persist \/ Report \/ Advance \/ Restart

\* One run over a live page: every snapshot is what the page shows just then.
Spec == Init /\ [][Next]_vars

\* Runs in succession over a live page, each over the store left by the last.
SpecRerun == Init /\ [][NextRerun]_vars

\* One run of main() over a store that earlier runs left
SpecResume == InitResume /\ [][Next]_vars

\* Runs in succession over a scripted page: each sees the same snapshots.
SpecScripted == InitScripted /\ [][NextRerun]_vars

\* The reaction-count parser applied to one token.
SpecParse == InitParse /\ [][Convert]_vars

NextNormalize == Normalize \/ Renormalize

\* The text normalizer applied to one text, and again to its result.
SpecNormalize == InitNormalize /\ [][NextNormalize]_vars

NextReport == GenerateReport \/ GenerateReportInTool

\* Report generation, of either file, on one store.
SpecReport == InitReport /\ [][NextReport]_vars

\* The backfill pass of the reporting tool, run twice on one store.
SpecBackfill == InitBackfill /\ [][Backfill]_vars

NextHalve == HalveName \/ HalveTitle

\* The halving of a duplicated name or title text.
SpecHalve == InitHalve /\ [][NextHalve]_vars

NextClassify == Classify \/ ClassifyInTool

\* The sentiment classifier of either file applied to one text.
SpecClassify == InitClassify /\ [][NextClassify]_vars

\* ----------------------------------------------------------------- claims
StoreIds(rows) == {rows[i].Post_ID : i \in 1..Len(rows)}

DistinctIds(rows) == \A i, j \in 1..Len(rows) : rows[i].Post_ID = rows[j].Post_ID => i = j

\* C1: a run that starts from a store whose Post_ID values are pairwise
\* distinct, with the ledger read from that store without a read error, never
\* leaves two rows with the same Post_ID in the store.
C1_PostIdsUnique ==
    (pc # "start" /\ ~load_failed /\ DistinctIds(SubSeq(store, 1, rows_at_start)))
        => DistinctIds(store)

\* C2: a run over the same snapshot sequence as the run before it, which ran
\* to completion, with the ledger read without error from the store that run
\* left, appends nothing: new_posts_added stays 0 and the store is unchanged.
C2_SecondRunAddsNothing ==
    (runs >= 2 /\ previous_run = "done" /\ pc # "start" /\ ~load_failed)
        => new_posts_added = 0 /\ Len(store) = rows_at_start

\* C3: the loop runs at most MAX_NO_NEW_POSTS_IN_A_ROW capture cycles beyond
\* the last cycle that met a container with an id outside the ledger, and
\* scroll_attempts never exceeds MAX_SCROLL_ATTEMPTS.
C3_TerminatesAfterStagnation ==
    /\ cycles <= last_new_cycle + MAX_NO_NEW_POSTS_IN_A_ROW
    /\ scroll_attempts <= MAX_SCROLL_ATTEMPTS

\* A run that accepted a record, then met nothing new, and was ended by the
\* stagnation limit alone, MAX_NO_NEW_POSTS_IN_A_ROW cycles later.
C3_Witness ==
    /\ pc = "done"
    /\ last_new_cycle >= 1
    /\ cycles = last_new_cycle + MAX_NO_NEW_POSTS_IN_A_ROW
    /\ new_posts_added < MAX_POSTS

\* C4: at every point of a run, which is every point at which the process can
\* crash, each post id whose success line was printed has its row in the
\* store; and whenever the loop turns to the next container every record
\* accepted so far has been appended, one row each.
C4_PrintedRowsAreStored ==
    /\ printed \subseteq StoreIds(SubSeq(store, rows_at_start + 1, Len(store)))
    /\ pc = "for" => Len(store) = rows_at_start + new_posts_added

\* A run that an error ended right after a success line was printed.
C4_Witness == pc = "aborted" /\ printed # {} /\ Len(store) > rows_at_start

\* C5: a container with an id outside the ledger and without content element
\* or author structure gets its one row, with the optional fields empty and
\* the sentiment (neutral, 0.0), and no error is raised for it (a store that
\* cannot be written is another matter).
C5_MissingStructureTolerated ==
    (accepted # Nothing /\ pc \in {"report", "aborted"} /\ error # "OSError"
     /\ (accepted.post_content = None \/ accepted.post_data.Post_Author_Name = <<>>))
        => /\ error = ""
           /\ Len(store) = rows_at_start + new_posts_added + (IF pc = "report" THEN 1 ELSE 0)
           /\ store[Len(store)] = accepted.post_data
           /\ accepted.post_content = None =>
                /\ accepted.post_data.Post_Content = <<>>
                /\ accepted.post_data.Sentiment = "neutral"
                /\ accepted.post_data.Sentiment_Score = 0

\* C6: the step that passes over a container without an id appends no row,
\* leaves the ledger and the four counters as they are, and raises nothing.
C6_UnidentifiedSkipped ==
    [][(pc = "for" /\ pending > 0 /\ last_step' = "no_id")
          => /\ UNCHANGED <<store, existing_post_ids, total_posts_processed,
                            skipped_duplicates, new_posts_added, new_posts_in_this_pass>>
             /\ pc' = "for"]_vars

\* A container without an id was passed over after others had been counted.
C6_Witness ==
    /\ pc = "for"
    /\ last_step = "no_id"
    /\ new_posts_added > 0
    /\ skipped_duplicates > 0

\* C7: no reactions token makes the parser raise: a run is never ended by a
\* ValueError.
C7_ParsingNeverRaises == ~(pc = "aborted" /\ error = "ValueError")

\* The claim of C8 covers a token with a K or M suffix, and a whole number
\* without suffix.
HasSuffix(t) == t # <<>> /\ t[Len(t)] \in {"K", "k", "M", "m"}
Prefix(t) == IF HasSuffix(t) THEN SubSeq(t, 1, Len(t) - 1) ELSE t
Multiplier(t) ==
    IF ~HasSuffix(t) THEN 1 ELSE IF t[Len(t)] \in {"K", "k"} THEN 1000 ELSE 1000000
Covered(t) == HasSuffix(t) \/ IsIntLiteral(t)

RECURSIVE Pow10(_)
Pow10(d) == IF d = 0 THEN 1 ELSE 10 * Pow10(d - 1)

\* The prefix times the multiplier, truncated, in exact arithmetic (the
\* division comes first where it is exact, to keep the product small).
PrefixTimesMultiplier(t) ==
    LET n == FloatNumerator(Prefix(t))
        d == FractionDigits(Prefix(t))
        m == Multiplier(t)
    IN  IF m % Pow10(d) = 0 THEN n * (m \div Pow10(d)) ELSE (n * m) \div Pow10(d)

\* C8: the parser returns the numeric prefix times 1,000 for a K suffix and
\* times 1,000,000 for an M suffix, truncated, and a whole number as it is.
C8_PrefixTimesMultiplier ==
    (pc = "parsed" /\ Covered(token)) => result = Returned(PrefixTimesMultiplier(token))

\* C9: the reactions value of every row in the store is non-negative.
C9_ReactionsNonNegative == \A i \in 1..Len(store) : store[i].Post_Reactions >= 0

\* C10: in every row of the store the label is positive exactly when the
\* stored score is above 0.1, negative exactly when it is below -0.1, and
\* neutral otherwise (stored scores are in units of 1/1000).
C10_LabelMatchesStoredScore ==
    \A i \in 1..Len(store) :
        /\ store[i].Sentiment = "positive" <=> store[i].Sentiment_Score > 100
        /\ store[i].Sentiment = "negative" <=> store[i].Sentiment_Score < -100
        /\ store[i].Sentiment = "neutral" <=>
               (store[i].Sentiment_Score >= -100 /\ store[i].Sentiment_Score <= 100)

\* C11: analyze_sentiment returns exactly (neutral, 0.0) when the text is
\* empty or None, when the engine is unavailable, and when the engine fails
\* on a non-empty text; it hands back a pair in each case, raising nothing.
C11_NeutralFallback ==
    (pc \in {"classified", "classified_in_tool"}
     /\ (~Truthy(argument.text) \/ ~sentiment_available \/ argument.outcome.failed))
        => returned = [label |-> "neutral", score |-> 0]

\* The engine was installed, was asked about a non-empty text and failed.
C11_Witness ==
    /\ pc = "classified"
    /\ sentiment_available
    /\ Truthy(argument.text)
    /\ argument.outcome.failed

\* C12: clean_post_content is idempotent: applied to its own result it
\* returns that result.
C12_NormalizerIdempotent == pc = "renormalized" => returned[2] = returned[1]

\* What C13 states for a raw text of n tokens: the first n \div 2 tokens with
\* single blanks between them when n >= 2, the raw text otherwise.
Halved(raw) ==
    LET tokens == Split(raw)
        n == Len(tokens)
    IN  IF n >= 2 THEN Join([i \in 1..(n \div 2) |-> tokens[i]]) ELSE raw

\* C13 as stated: the author name and the author title are both the halved
\* raw text.
C13_NameAndTitleHalved == pc \in {"name", "title"} => returned = Halved(argument)

\* C13 as amended: the author name is the halved raw text, and the author
\* title is what the normalizer makes of the halved raw text.
C13_NameHalvedTitleNormalized ==
    /\ pc = "name" => returned = Halved(argument)
    /\ pc = "title" => returned = clean_post_content(Halved(argument))

\* A title of two tokens rendered twice, of which the normalizer deletes one.
C13_Witness ==
    /\ pc = "title"
    /\ Len(Split(argument)) = 4
    /\ Split(argument)[3] = Split(argument)[1]
    /\ Split(argument)[4] = Split(argument)[2]
    /\ returned # Halved(argument)

\* C14: on a store that is absent or has no data rows, report generation says
\* what failed, writes no report file, raises nothing and leaves the store as
\* it was.
C14_AbsentOrEmptyStore ==
    (pc \in {"generated", "generated_in_tool"}
     /\ (~argument.exists \/ argument.rows = <<>>))
        => /\ report_file = <<>>
           /\ returned.end.raised = ""
           /\ returned.end.said \in {"not found", "validation failed", "No data found",
                                     "Error reading"}
           /\ returned.end.value \in {"None", "False"}
           /\ csv_file = argument

\* The scraper's report generation met a store with a header and no rows.
C14_Witness ==
    /\ pc = "generated"
    /\ argument.exists
    /\ argument.fieldnames # {}
    /\ argument.rows = <<>>
    /\ returned.end.said = "No data found"

\* A store whose cells, in the columns it has, all hold what their column is
\* to hold
WellFormed(file) ==
    \A i \in 1..Len(file.rows) :
        /\ "Sentiment" \in file.fieldnames => file.rows[i].Sentiment \in Labels
        /\ "Sentiment_Score" \in file.fieldnames => file.rows[i].Sentiment_Score # <<>>
        /\ "Post_Reactions" \in file.fieldnames => file.rows[i].Post_Reactions # <<>>

\* C15: on a readable store with rows that lacks some of the columns
\* Sentiment, Sentiment_Score and Post_Reactions (and is well formed in the
\* columns it has), report generation produces a report, in which the rows
\* count as neutral, as 0.0 and as 0 for the columns that are missing.
C15_MissingColumnsDefaulted ==
    (pc \in {"generated", "generated_in_tool"}
     /\ argument.exists /\ argument.rows # <<>> /\ WellFormed(argument)
     /\ ~(OptionalColumns \subseteq argument.fieldnames)
     /\ ~returned.read_fails /\ ~returned.write_fails)
        => /\ returned.end.raised = ""
           /\ report_file # <<>>
           /\ "Sentiment" \notin argument.fieldnames
                => report_file[1].neutral = Len(argument.rows)
           /\ "Sentiment_Score" \notin argument.fieldnames => report_file[1].score_sum = 0
           /\ "Post_Reactions" \notin argument.fieldnames
                => report_file[1].total_reactions = 0

\* A row that has both a sentiment and a score
Complete(file, row) ==
    /\ "Sentiment" \in file.fieldnames /\ row.Sentiment # ""
    /\ "Sentiment_Score" \in file.fieldnames /\ row.Sentiment_Score # <<>>

\* The store before the k-th pass
Before(k) == IF k = 1 THEN argument ELSE returned[k - 1].file

\* C16: a second pass of update_csv_with_sentiment after a first one updates
\* no row and leaves the rows the first pass left, and a pass never changes a
\* row that had both its sentiment and its score (passes that ran to the end).
C16_BackfillIdempotent ==
    /\ (Len(returned) = 2 /\ returned[1].value = "True" /\ returned[2].value = "True")
          => /\ returned[2].updated_count = 0
             /\ returned[2].file.rows = returned[1].file.rows
    /\ \A k \in 1..Len(returned) :
          returned[k].value = "True"
            => \A i \in 1..Len(Before(k).rows) :
                  Complete(Before(k), Before(k).rows[i])
                    => returned[k].file.rows[i] = Before(k).rows[i]

\* A first pass gave a sentiment to a row without one, beside a row that had
\* its own, and a second pass followed.
C16_Witness ==
    /\ pc = "updated_again"
    /\ returned[1].value = "True"
    /\ returned[2].value = "True"
    /\ returned[1].updated_count = 1
    /\ Len(argument.rows) = 2
    /\ Complete(argument, argument.rows[2])

\* C17: when the read of the store fails during the ledger bootstrap, no
\* error is raised and the run enters its loop with the empty ledger that a
\* store that does not exist gives, however many rows were read before the
\* failure.
C17_FailedLoadAsAbsent ==
    (pc = "loop" /\ cycles = 0 /\ load_failed)
        => (error = "" /\ existing_post_ids = {})

\* C18: the ledger is read from the store by the startup step alone, and in
\* every step of a run the ledger after the step holds every id it held
\* before it; a step after the startup adds at most the one id it examined.
C18_LedgerOnlyGrows ==
    [][pc' # "start"
         => /\ existing_post_ids \subseteq existing_post_ids'
            /\ pc # "start"
                 => Cardinality(existing_post_ids') <= Cardinality(existing_post_ids) + 1]_vars

\* A run that read a ledger from a store with rows and added an id to it.
C18_Witness ==
    /\ ~load_failed
    /\ rows_at_start >= 1
    /\ Cardinality(existing_post_ids) > rows_at_start
    /\ last_step = "new"

\* One of the three limits is reached
LimitReached ==
    \/ new_posts_added >= MAX_POSTS
    \/ scroll_attempts >= MAX_SCROLL_ATTEMPTS
    \/ no_new_posts_count >= MAX_NO_NEW_POSTS_IN_A_ROW

\* C19: a capture cycle starts only while none of the three limits is
\* reached (new_posts_added below MAX_POSTS, scroll_attempts below
\* MAX_SCROLL_ATTEMPTS, no_new_posts_count below MAX_NO_NEW_POSTS_IN_A_ROW),
\* the loop goes on while none is reached, and when the loop is left through
\* its test at least one of the three is reached.
C19_TerminationChecked ==
    /\ [](pc = "done" => LimitReached)
    /\ [][/\ cycles' = cycles + 1 => ~LimitReached
          /\ (pc = "loop" /\ ~LimitReached) => pc' = "for"
          /\ (pc = "loop" /\ pc' = "done") => LimitReached]_vars

\* A run that the pagination limit alone ended.
C19_Witness ==
    /\ pc = "done"
    /\ scroll_attempts = MAX_SCROLL_ATTEMPTS
    /\ new_posts_added < MAX_POSTS
    /\ no_new_posts_count < MAX_NO_NEW_POSTS_IN_A_ROW

\* C20: the step that follows the containers of a snapshot sets
\* no_new_posts_count to 0 when the cycle accepted a record and adds exactly
\* 1 to it otherwise; and whenever the loop is about to test its condition
\* the counter is the number of cycles since the last cycle that accepted a
\* record (all cycles, when none did).
C20_StagnationCounter ==
    /\ [](pc = "loop" => no_new_posts_count = cycles - last_new_cycle)
    /\ [][pc = "advance"
            => no_new_posts_count' = IF last_new_cycle = cycles THEN 0
                                     ELSE no_new_posts_count + 1]_vars

\* A cycle without a new record, then one that accepted a record and reset
\* the counter, then one without a new record again.
C20_Witness ==
    /\ pc = "loop"
    /\ cycles = 3
    /\ last_new_cycle = 2
    /\ new_posts_added = 1
    /\ no_new_posts_count = 1

\* C21: the step that ends a cycle scrolls (and counts the scroll in
\* scroll_attempts) only if the loop is not terminating: when the step
\* scrolls, new_posts_added is below MAX_POSTS, the stagnation counter the
\* step leaves is below MAX_NO_NEW_POSTS_IN_A_ROW, and scroll_attempts was
\* below MAX_SCROLL_ATTEMPTS before the scroll.
C21_ScrollOnlyIfNotTerminating ==
    [][(pc = "advance" /\ scroll_attempts' = scroll_attempts + 1)
         => /\ new_posts_added' < MAX_POSTS
            /\ no_new_posts_count' < MAX_NO_NEW_POSTS_IN_A_ROW
            /\ scroll_attempts < MAX_SCROLL_ATTEMPTS]_vars

\* C22: whenever the loop stands between two containers (before the next
\* container, after the last one of a snapshot, at the while test and after
\* the loop), total_posts_processed is new_posts_added plus
\* skipped_duplicates, the ledger has as many ids as the bootstrap returned
\* plus new_posts_added, and the store has as many rows as when the run began
\* plus new_posts_added.
C22_CountersConsistent ==
    pc \in {"for", "advance", "loop", "done"}
        => /\ total_posts_processed = new_posts_added + skipped_duplicates
           /\ Cardinality(existing_post_ids) = Cardinality(ledger_at_start) + new_posts_added
           /\ Len(store) = rows_at_start + new_posts_added

\* A run over a store with rows that skipped a duplicate, accepted a record
\* and has just passed over a container without an id.
C22_Witness ==
    /\ pc = "for"
    /\ ledger_at_start # {}
    /\ skipped_duplicates >= 1
    /\ new_posts_added >= 1
    /\ last_step = "no_id"

\* C23: a run appends at most MAX_POSTS rows, however many containers a
\* snapshot holds: the container that brings new_posts_added to MAX_POSTS
\* ends the processing of its snapshot, and from then on the store and the
\* ledger are left as they are.
C23_RecordMaximum ==
    /\ [](new_posts_added <= MAX_POSTS /\ Len(store) <= rows_at_start + MAX_POSTS)
    /\ [][/\ (pc = "report" /\ new_posts_added' >= MAX_POSTS /\ pc' # "aborted")
              => (pc' = "advance" /\ pending' = 0)
          /\ new_posts_added >= MAX_POSTS => UNCHANGED <<store, existing_post_ids>>]_vars

\* The record that reaches the maximum has been appended while its snapshot
\* still holds a container after it.
C23_Witness ==
    /\ pc = "report"
    /\ new_posts_added + 1 = MAX_POSTS
    /\ pending > 1
    /\ accepted.post_content # None

\* C24: generate_sentiment_report of src/sentiment.py, on a store that exists
\* and passes validate_csv_structure, ends by returning True or False and
\* raises nothing, whatever its rows hold in Sentiment and Date_Collected.
C24_ToolReportNeverRaises ==
    (pc = "generated_in_tool" /\ argument.exists /\ validate_csv_structure(argument))
        => /\ returned.end.raised = ""
           /\ returned.end.value \in {"True", "False"}

====
